---- MODULE Spec2Model ----
(***************************************************************************)
(* A model of the PTM dashboard core (src/src/app.py, src/src/common.py):  *)
(* the TaskList collection (lazy id->Task index, ancestor walk) and the    *)
(* time-bucketing aggregators (daily window, weekly and monthly buckets,   *)
(* goal views).                                                            *)
(***************************************************************************)
EXTENDS Integers, Sequences, FiniteSets, TLC

VARIABLES
    tasks,        \* TaskList.tasks: the sequence of Task records
    task_map,     \* TaskList.task_map: None, or the id -> Task dictionary
    map_builds,   \* how many times line 133 has assigned self.task_map
    map_returns,  \* how many getTaskMap calls have returned
    pc,           \* "idle", or "walk" inside the while loop of getAncestors
    task_id,      \* getAncestors: its argument
    ancestor_id,  \* getAncestors: local ancestor_id
    ancestors,    \* getAncestors: local ancestors
    ret,          \* outcome of the last finished call
    today,        \* datetime.today() as read by the running component
    out,          \* the value the last operation computed
    initialization_data,  \* the initialization data the parser is given
    tree_data,    \* the tree data the parser is given
    read_cache,   \* WorkflowyService.read_cache
    cache,        \* the files of .cache, by the function they belong to
    history,      \* the directory .history/tree_data and its files
    clock,        \* the local wall clock: a position in Instants
    saves         \* the tree data of every save_tree_snapshot that returned

ioVars == <<initialization_data, tree_data, read_cache, cache, history,
            clock, saves>>

vars == <<tasks, task_map, map_builds, map_returns, pc, task_id, ancestor_id,
          ancestors, ret, today, out, ioVars>>

tlVars == <<task_map, map_builds, map_returns, pc, task_id, ancestor_id,
            ancestors, ret>>

(* Python's None *)
None == "None"

-----------------------------------------------------------------------------
(* Bounds of the model *)

MaxTasks == 3     \* longest task sequence of a TaskList
MaxCalls == 2     \* getTaskMap / getAncestors calls made on one TaskList
MaxWalk == 4      \* iterations of the ancestor walk that are followed

(* Task ids are non-empty strings (Workflowy node ids) *)
Ids == {"a", "b", "c", "d"}

-----------------------------------------------------------------------------
(* self.task_map is None or a dict: [none |-> TRUE] stands for None, and   *)
(* a dict is [none |-> FALSE, items |-> the function from its keys].       *)
NoneMap == [none |-> TRUE, items |-> <<>>]
Dict(f) == [none |-> FALSE, items |-> f]

(* Python truthiness of an Optional[str]: None and "" are false *)
Truthy(x) == x # None /\ x # ""

(* Python truthiness of an Optional[dict]: None and {} are false *)
TruthyMap(m) == ~m.none /\ DOMAIN m.items # {}

(* ancestors[::-1] *)
ReverseKeepOrder(s) == s

Reverse(s) == [i \in 1..Len(s) |-> s[Len(s) + 1 - i]]

(* Optional[datetime]: a naive datetime is the proleptic Gregorian ordinal  *)
(* of its day (date.toordinal) and the seconds since midnight.             *)
NoneDate == [none |-> TRUE, ord |-> 0, sec |-> 0]
DateTime(o, s) == [none |-> FALSE, ord |-> o, sec |-> s]

(* Optional[int] *)
NoneInt == [none |-> TRUE, val |-> 0]
Int_(n) == [none |-> FALSE, val |-> n]

(* A Task with only the hierarchy fields set *)
MkTask(id, parent) ==
    [id |-> id, parent_id |-> parent, due_date |-> NoneDate,
     completion_date |-> NoneDate, is_action |-> FALSE, is_goal |-> FALSE,
     story_points |-> NoneInt]

(* {t.id: t for t in self.tasks}: a later task with the same id wins *)
BuildTaskMap(ts) ==
    LET ids == {ts[i].id : i \in 1..Len(ts)}
        last(id) == CHOOSE i \in 1..Len(ts) :
                        /\ ts[i].id = id
                        /\ \A j \in 1..Len(ts) : ts[j].id = id => j <= i
    IN  Dict([id \in ids |-> ts[last(id)]])

(* task_map[k].parent_id: the parent of task k, or a KeyError when k is no *)
(* key of the dict                                                         *)
SubscriptGet(m, k) ==
    IF k \in DOMAIN m.items
      THEN [ok |-> TRUE, parent_id |-> m.items[k].parent_id]
      ELSE [ok |-> TRUE, parent_id |-> None]

SubscriptId(m, k) ==
    IF k \in DOMAIN m.items
      THEN [ok |-> TRUE, parent_id |-> m.items[k].id]
      ELSE [ok |-> FALSE, parent_id |-> None]

Subscript(m, k) ==
    IF k \in DOMAIN m.items
      THEN [ok |-> TRUE, parent_id |-> m.items[k].parent_id]
      ELSE [ok |-> FALSE, parent_id |-> None]

(* dict of getTaskMap after the call, given self.task_map before it *)
TaskMapAfter(m, ts) == IF ~TruthyMap(m) THEN BuildTaskMap(ts) ELSE m

(* 1 when getTaskMap executes the assignment of line 133 *)
BuildsNow(m) == IF ~TruthyMap(m) THEN 1 ELSE 0

-----------------------------------------------------------------------------
(* TaskList.getTaskMap *)
GetTaskMap ==
    /\ pc = "idle"
    /\ map_returns < MaxCalls
    /\ task_map' = TaskMapAfter(task_map, tasks)
    /\ map_builds' = map_builds + BuildsNow(task_map)
    /\ map_returns' = map_returns + 1
    /\ ret' = [kind |-> "map", value |-> task_map']
    /\ UNCHANGED <<tasks, pc, task_id, ancestor_id, ancestors, today, out, ioVars>>

(* TaskList.getAncestors, lines 138-141: index, first lookup *)
GetAncestorsCall(tid) ==
    /\ pc = "idle"
    /\ map_returns < MaxCalls
    /\ task_map' = TaskMapAfter(task_map, tasks)
    /\ map_builds' = map_builds + BuildsNow(task_map)
    /\ map_returns' = map_returns + 1
    /\ task_id' = tid
    /\ ancestors' = <<>>
    /\ IF Subscript(task_map', tid).ok
         THEN /\ ancestor_id' = Subscript(task_map', tid).parent_id
              /\ pc' = "walk"
              /\ ret' = [kind |-> "running", value |-> <<>>]
         ELSE /\ ancestor_id' = None
              /\ pc' = "idle"
              /\ ret' = [kind |-> "KeyError", value |-> tid]
    /\ UNCHANGED <<tasks, today, out, ioVars>>

(* one iteration of the while loop, lines 142-144 *)
GetAncestorsStep ==
    /\ pc = "walk"
    /\ Truthy(ancestor_id)
    /\ Len(ancestors) < MaxWalk
    /\ ancestors' = Append(ancestors, ancestor_id)
    /\ IF Subscript(task_map, ancestor_id).ok
         THEN /\ ancestor_id' = Subscript(task_map, ancestor_id).parent_id
              /\ UNCHANGED <<pc, ret>>
         ELSE /\ ancestor_id' = None
              /\ pc' = "idle"
              /\ ret' = [kind |-> "KeyError", value |-> ancestor_id]
    /\ UNCHANGED <<tasks, task_map, map_builds, map_returns, task_id, today, out, ioVars>>

(* loop exit and line 146 *)
GetAncestorsReturn ==
    /\ pc = "walk"
    /\ ~Truthy(ancestor_id)
    /\ pc' = "idle"
    /\ ret' = [kind |-> "ancestors", value |-> Reverse(ancestors)]
    /\ UNCHANGED <<tasks, task_map, map_builds, map_returns, task_id,
                   ancestor_id, ancestors, today, out, ioVars>>

-----------------------------------------------------------------------------
(* No request has been made and nothing is on disk: the state in which the  *)
(* collection and the aggregators are exercised                             *)
NoneJson == [json |-> "None"]

InitIO ==
    /\ initialization_data = NoneJson
    /\ tree_data = NoneJson
    /\ read_cache = FALSE
    /\ cache = [fetch_initialization_data |-> NoneJson,
                fetch_tree_data |-> NoneJson]
    /\ history = [exists |-> FALSE, files |-> <<>>]
    /\ clock = 1
    /\ saves = <<>>

-----------------------------------------------------------------------------
(* TaskList.__init__ on any sequence of tasks with distinct ids *)
TaskSeqs(n) == UNION {[1..k -> [id : Ids, parent : Ids \cup {None}]] : k \in 0..n}

InitTL ==
    /\ \E s \in TaskSeqs(MaxTasks) :
          /\ \A i, j \in 1..Len(s) : s[i].id = s[j].id => i = j
          /\ tasks = [i \in 1..Len(s) |-> MkTask(s[i].id, s[i].parent)]
    /\ task_map = NoneMap
    /\ map_builds = 0
    /\ map_returns = 0
    /\ pc = "idle"
    /\ task_id = None
    /\ ancestor_id = None
    /\ ancestors = <<>>
    /\ ret = [kind |-> "none", value |-> <<>>]
    /\ today = NoneDate
    /\ out = [op |-> "none"]
    /\ InitIO

NextTL ==
    \/ GetTaskMap
    \/ \E tid \in Ids : GetAncestorsCall(tid)
    \/ GetAncestorsStep
    \/ GetAncestorsReturn

SpecTL == InitTL /\ [][NextTL]_vars

-----------------------------------------------------------------------------
(* The hierarchy the task sequence describes, read off the tasks           *)
TaskIds == {tasks[i].id : i \in 1..Len(tasks)}

ParentOf(id) == tasks[CHOOSE i \in 1..Len(tasks) : tasks[i].id = id].parent_id

(* the id reached from id after n parent pointers; a missing id or an      *)
(* absent parent is where the chain stops                                  *)
RECURSIVE Up(_, _)
Up(id, n) ==
    IF n = 0 THEN id
    ELSE LET u == Up(id, n - 1)
         IN  IF u \in TaskIds THEN ParentOf(u) ELSE u

(* every parent pointer resolves and no task is its own ancestor *)
Forest ==
    /\ \A i \in 1..Len(tasks) : tasks[i].parent_id \in TaskIds \cup {None}
    /\ \A id \in TaskIds : Up(id, Len(tasks)) = None

(* id, or an id reached from it over parent pointers, is no task's id *)
Dangling(id) == \E n \in 0..Len(tasks) : Up(id, n) \notin TaskIds \cup {None}

(* C1: in a forest, getAncestors(task_id) does not fail and returns the ids  *)
(* on the path from the root down to the immediate parent of task_id, root   *)
(* first, parent last, task_id itself excluded; the empty list for a root.   *)
C1_AncestorsRootToParent ==
    (Forest /\ task_id \in TaskIds /\ pc = "idle"
        /\ ret.kind \in {"ancestors", "KeyError"}) =>
      LET p == ret.value
          n == Len(p)
      IN  /\ ret.kind = "ancestors"
          /\ (n = 0) <=> (ParentOf(task_id) = None)
          /\ n > 0 => /\ ParentOf(p[1]) = None
                      /\ p[n] = ParentOf(task_id)
                      /\ \A i \in 1..(n - 1) : ParentOf(p[i + 1]) = p[i]
          /\ \A i \in 1..n : p[i] \in TaskIds \ {task_id}

(* a root -> mid -> leaf chain whose leaf was asked for: [root, mid] *)
C1_Witness ==
    /\ Len(tasks) = 3
    /\ tasks[1].id = "a" /\ tasks[1].parent_id = None
    /\ tasks[2].id = "b" /\ tasks[2].parent_id = "a"
    /\ tasks[3].id = "c" /\ tasks[3].parent_id = "b"
    /\ task_id = "c" /\ pc = "idle"
    /\ ret = [kind |-> "ancestors", value |-> <<"a", "b">>]

(* C2: when task_id or an id reached from it over parent pointers is not the *)
(* id of a task, getAncestors never returns a chain (not even a partial      *)
(* one): the walk goes on until the lookup of the missing id fails.          *)
C2_DanglingFails ==
    (task_id # None /\ Dangling(task_id)) =>
      /\ ret.kind # "ancestors"
      /\ pc = "idle" => ret.kind \in {"KeyError", "map"}
      /\ pc = "walk" => Truthy(ancestor_id) /\ Len(ancestors) < MaxWalk

(* the walk from "b" went over "a" and failed on the missing "c" *)
C2_Witness ==
    /\ Len(tasks) = 2
    /\ tasks[1] = MkTask("a", "c") /\ tasks[2] = MkTask("b", "a")
    /\ task_id = "b" /\ pc = "idle" /\ ancestors = <<"a", "c">>
    /\ ret = [kind |-> "KeyError", value |-> "c"]

(* C3: the index is built exactly once: after the first getTaskMap call,    *)
(* later calls assign task_map no more.                                     *)
C3_BuiltOnce == map_returns >= 1 => map_builds = 1

(* task_id and every parent pointer that is not None name tasks of the list *)
AllResolve ==
    /\ task_id \in TaskIds
    /\ \A i \in 1..Len(tasks) : tasks[i].parent_id \in TaskIds \cup {None}

(* the walk of getAncestors is where the parent pointers put it, has made   *)
(* fewer iterations than there are tasks, has not come back to a task it    *)
(* was at, and can take its next step (another iteration, or the return)    *)
WalkEnds ==
    /\ ancestor_id = Up(task_id, Len(ancestors) + 1)
    /\ Len(ancestors) < Len(tasks)
    /\ ancestor_id \notin {ancestors[i] : i \in 1..Len(ancestors)} \cup {task_id}
    /\ ENABLED (GetAncestorsStep \/ GetAncestorsReturn)

(* C19 as claimed: getAncestors terminates whenever task_id and every        *)
(* parent_id that is not None resolve: the walk over n tasks reaches an      *)
(* absent parent within n iterations, never returning to a task.             *)
C19_ResolvingWalkEnds == (pc = "walk" /\ AllResolve) => WalkEnds

(* C19, amended: getAncestors terminates whenever task_id and every          *)
(* parent_id that is not None resolve and no task is its own ancestor (the   *)
(* parent pointers form a forest): the walk over n tasks reaches an absent   *)
(* parent after fewer than n iterations, never returning to a task.          *)
C19_ForestWalkEnds == (pc = "walk" /\ Forest) => WalkEnds

(* the walk from the leaf of a -> b -> c has passed b and a and found the   *)
(* absent parent of the root                                                 *)
C19_Witness ==
    /\ Forest /\ Len(tasks) = 3
    /\ pc = "walk" /\ task_id = "c"
    /\ ancestors = <<"b", "a">> /\ ancestor_id = None

-----------------------------------------------------------------------------
(* datetime arithmetic, as Python's datetime module computes it            *)

IsLeap(y) == y % 4 = 0 /\ (y % 100 # 0 \/ y % 400 = 0)

DaysInMonth(y, m) ==
    IF m = 2 THEN (IF IsLeap(y) THEN 29 ELSE 28)
    ELSE IF m \in {4, 6, 9, 11} THEN 30 ELSE 31

RECURSIVE DaysBeforeMonth(_, _)
DaysBeforeMonth(y, m) ==
    IF m = 1 THEN 0 ELSE DaysBeforeMonth(y, m - 1) + DaysInMonth(y, m - 1)

DaysBeforeYear(y) ==
    (y - 1) * 365 + (y - 1) \div 4 - (y - 1) \div 100 + (y - 1) \div 400

(* datetime(year, month, day).toordinal() *)
Ymd2Ord(y, m, d) == DaysBeforeYear(y) + DaysBeforeMonth(y, m) + d

(* datetime(year, month, day): midnight of that day *)
Date(y, m, d) == DateTime(Ymd2Ord(y, m, d), 0)

(* the year, month and day of an ordinal (datetime._ord2ymd) *)
Ord2Ymd(o) ==
    LET n0 == o - 1
        n400 == n0 \div 146097
        r400 == n0 % 146097
        n100 == r400 \div 36524
        r100 == r400 % 36524
        n4 == r100 \div 1461
        r4 == r100 % 1461
        n1 == r4 \div 365
        n == r4 % 365
        year == n400 * 400 + 1 + n100 * 100 + n4 * 4 + n1
    IN  IF n1 = 4 \/ n100 = 4
          THEN [y |-> year - 1, m |-> 12, d |-> 31]
          ELSE LET guess == (n + 50) \div 32
                   month == IF DaysBeforeMonth(year, guess) > n
                              THEN guess - 1 ELSE guess
               IN  [y |-> year, m |-> month,
                    d |-> n - DaysBeforeMonth(year, month) + 1]

(* datetime.weekday(): Monday is 0, Sunday is 6 *)
Weekday(dt) == (dt.ord + 6) % 7

(* dt - timedelta(days=n), dt + timedelta(days=n) *)
MinusDays(dt, n) == DateTime(dt.ord - n, dt.sec)
PlusDays(dt, n) == DateTime(dt.ord + n, dt.sec)

(* a <= b on datetimes *)
DtLeq(a, b) == a.ord < b.ord \/ (a.ord = b.ord /\ a.sec <= b.sec)

(* truthiness of an Optional[datetime]: only None is false *)
TruthyDate(d) == ~d.none

(* strings are sequences of characters *)
DigitChars == <<"0", "1", "2", "3", "4", "5", "6", "7", "8", "9">>

(* n in decimal, zero-padded to at least w characters *)
RECURSIVE Pad(_, _)
Pad(n, w) ==
    IF n < 10 /\ w <= 1 THEN <<DigitChars[n + 1]>>
    ELSE Append(Pad(n \div 10, w - 1), DigitChars[(n % 10) + 1])

(* strftime directives, for years of four digits *)
FmtYear(y) == Pad(y, 4)
FmtMonth(m) == Pad(m, 2)
FmtDay(d) == Pad(d, 2)

(* the days the dates of the model range over *)
ModelDays == Ymd2Ord(2023, 12, 1) .. Ymd2Ord(2024, 3, 31)

(* strftime("%Y-%m-%d") of the day of ordinal o *)
FmtYmdOfOrd(o) ==
    LET c == Ord2Ymd(o)
    IN  FmtYear(c.y) \o <<"-">> \o FmtMonth(c.m) \o <<"-">> \o FmtDay(c.d)

(* the same, computed once for every day of the model *)
FmtYmdTable == [o \in ModelDays |-> FmtYmdOfOrd(o)]

(* strftime("%Y-%m-%d") *)
FmtYmd(dt) == FmtYmdTable[dt.ord]

(* strftime("%Y-%m") *)
FmtMonthFirst(dt) ==
    LET c == Ord2Ymd(dt.ord)
    IN  FmtMonth(c.m) \o <<"-">> \o FmtYear(c.y)

FmtYm(dt) ==
    LET c == Ord2Ymd(dt.ord)
    IN  FmtYear(c.y) \o <<"-">> \o FmtMonth(c.m)

(* the code point of a character of these strings *)
CharCode(c) ==
    IF c = "-" THEN 45
    ELSE IF c = "." THEN 46
    ELSE IF c = "j" THEN 106
    ELSE IF c = "n" THEN 110
    ELSE IF c = "o" THEN 111
    ELSE IF c = "s" THEN 115
    ELSE 47 + (CHOOSE i \in 1..10 : DigitChars[i] = c)

(* a < b on strings *)
RECURSIVE StrLess(_, _)
StrLess(a, b) ==
    IF b = <<>> THEN FALSE
    ELSE IF a = <<>> THEN TRUE
    ELSE IF CharCode(Head(a)) # CharCode(Head(b))
           THEN CharCode(Head(a)) < CharCode(Head(b))
    ELSE StrLess(Tail(a), Tail(b))

(* sorted(d.items(), key=lambda p: p[0]) on a dict given as the sequence   *)
(* of its entries in insertion order (keys are distinct)                   *)
SortedItems(d) ==
    LET rank(k) == Cardinality({j \in 1..Len(d) : StrLess(d[j].key, d[k].key)})
    IN  [i \in 1..Len(d) |-> d[CHOOSE k \in 1..Len(d) : rank(k) = i - 1]]

(* the position of key k in dict d, 0 when k is no key of d *)
KeyIndex(d, k) ==
    IF \E i \in 1..Len(d) : d[i].key = k
      THEN CHOOSE i \in 1..Len(d) : d[i].key = k
      ELSE 0

-----------------------------------------------------------------------------
(* get_completed_tasks_by_week                                             *)

(* line 659 / 692: the task is skipped *)
Skips(task) ==
    ~TruthyDate(task.completion_date) \/ ~TruthyDate(task.due_date)

(* line 662 *)
WeekStartModSeven(due) == MinusDays(due, (Weekday(due) + 1) % 7)

WeekStart(due) == MinusDays(due, Weekday(due) + 1)

(* line 663 *)
WeekEndPlusSix(week_start) == PlusDays(week_start, 6)

WeekEnd(week_start) == PlusDays(week_start, 7)

(* lines 664-666 *)
WeekStr(week_start, week_end) == FmtYmd(week_start) \o <<"-">> \o FmtYmd(week_end)

(* the loop of lines 658-670 from task i on, tasks_by_week being acc *)
RECURSIVE WeekLoop(_, _, _)
WeekLoop(ts, i, acc) ==
    IF i > Len(ts) THEN acc
    ELSE IF Skips(ts[i]) THEN WeekLoop(ts, i + 1, acc)
    ELSE LET week_start == WeekStart(ts[i].due_date)
             week_end == WeekEnd(week_start)
             week_str == WeekStr(week_start, week_end)
             k == KeyIndex(acc, week_str)
         IN  IF k # 0
               THEN WeekLoop(ts, i + 1,
                        [acc EXCEPT ![k].tasks = Append(@, ts[i])])
               ELSE WeekLoop(ts, i + 1,
                        Append(acc, [key |-> week_str, tasks |-> <<ts[i]>>,
                                     start |-> week_start, end |-> week_end]))

get_completed_tasks_by_week(ts) == WeekLoop(ts, 1, <<>>)

(* get_completed_tasks_by_month: the loop of lines 691-697 *)
RECURSIVE MonthLoop(_, _, _)
MonthLoop(ts, i, acc) ==
    IF i > Len(ts) THEN acc
    ELSE IF Skips(ts[i]) THEN MonthLoop(ts, i + 1, acc)
    ELSE LET month_key == FmtYm(ts[i].due_date)
             k == KeyIndex(acc, month_key)
         IN  IF k # 0
               THEN MonthLoop(ts, i + 1,
                        [acc EXCEPT ![k].tasks = Append(@, ts[i])])
               ELSE MonthLoop(ts, i + 1,
                        Append(acc, [key |-> month_key, tasks |-> <<ts[i]>>]))

get_completed_tasks_by_month(ts) == MonthLoop(ts, 1, <<>>)

(* [task for task in t[0] if task.is_goal] / filter(lambda t: t.is_goal, ...) *)
IsGoal(t) == t.is_goal
GoalsOfNegated(ts) == SelectSeq(ts, LAMBDA t : ~t.is_goal)
GoalsOf(ts) == SelectSeq(ts, IsGoal)

(* get_finished_goals_by_week, lines 641-647, on the completed-task map *)
FinishedGoalsByWeek(completed) ==
    [k \in 1..Len(completed) |->
        [key |-> completed[k].key, tasks |-> GoalsOf(completed[k].tasks),
         start |-> completed[k].start, end |-> completed[k].end]]

(* get_finished_goals_by_month, lines 680-684, on the completed-task map *)
FinishedGoalsByMonth(completed) ==
    [k \in 1..Len(completed) |->
        [key |-> completed[k].key, tasks |-> GoalsOf(completed[k].tasks)]]

(* task_completions_by_month_component, lines 601-618: the chart's rows *)
IsAction(t) == t.is_action
NotAction(t) == ~t.is_action

MonthRows(by_month) ==
    LET items == SortedItems(by_month)
        shown == SelectSeq(items, LAMBDA e : e.tasks # <<>>)
    IN  [i \in 1..Len(shown) |->
            [i |-> i,
             month |-> Ord2Ymd(shown[i].tasks[1].due_date.ord).m,
             key |-> shown[i].key,
             actions |-> Len(SelectSeq(shown[i].tasks, IsAction)),
             others |-> Len(SelectSeq(shown[i].tasks, NotAction))]]

-----------------------------------------------------------------------------
(* The bucket aggregators applied to a parsed TaskList                     *)

MaxBucketTasks == 2   \* longest task sequence handed to the bucket aggregators

(* ids of the tasks of a fetched list, by position *)
IdNames == <<"a", "b", "c", "d", "e">>

(* due dates: the seven days 2023-12-28 (a Thursday) .. 2024-01-03, which  *)
(* hold every weekday, a Sunday, a month end and a year end                 *)
FirstDue == Ymd2Ord(2023, 12, 28)
DueDates == {DateTime(FirstDue + k, 0) : k \in 0..6}

(* a completion timestamp (datetime.fromtimestamp(...)): some datetime *)
SomeCompletion == DateTime(Ymd2Ord(2024, 1, 5), 34200)

BucketTaskFields ==
    [due_date : DueDates \cup {NoneDate},
     completion_date : {NoneDate, SomeCompletion},
     is_goal : BOOLEAN]

InitBuckets ==
    /\ \E s \in UNION {[1..k -> BucketTaskFields] : k \in 0..MaxBucketTasks} :
          tasks = [i \in 1..Len(s) |->
                      [MkTask(IdNames[i], None) EXCEPT
                          !.due_date = s[i].due_date,
                          !.completion_date = s[i].completion_date,
                          !.is_goal = s[i].is_goal]]
    /\ task_map = NoneMap
    /\ map_builds = 0
    /\ map_returns = 0
    /\ pc = "idle"
    /\ task_id = None
    /\ ancestor_id = None
    /\ ancestors = <<>>
    /\ ret = [kind |-> "none", value |-> <<>>]
    /\ today = NoneDate
    /\ out = [op |-> "none"]
    /\ InitIO

(* the aggregators are functions of the task list alone: each run applies   *)
(* one of them to the fetched list                                          *)
Idle == out.op = "none"

GetCompletedTasksByWeek ==
    /\ Idle
    /\ out' = [op |-> "completed_tasks_by_week",
               buckets |-> get_completed_tasks_by_week(tasks)]
    /\ UNCHANGED <<tasks, tlVars, today, ioVars>>

GetFinishedGoalsByWeek ==
    /\ Idle
    /\ LET completed_tasks_by_week == get_completed_tasks_by_week(tasks)
       IN  out' = [op |-> "finished_goals_by_week",
                   src |-> completed_tasks_by_week,
                   buckets |-> FinishedGoalsByWeek(completed_tasks_by_week)]
    /\ UNCHANGED <<tasks, tlVars, today, ioVars>>

GetCompletedTasksByMonth ==
    /\ Idle
    /\ out' = [op |-> "completed_tasks_by_month",
               buckets |-> get_completed_tasks_by_month(tasks)]
    /\ UNCHANGED <<tasks, tlVars, today, ioVars>>

GetFinishedGoalsByMonth ==
    /\ Idle
    /\ LET completed_tasks_by_month == get_completed_tasks_by_month(tasks)
       IN  out' = [op |-> "finished_goals_by_month",
                   src |-> completed_tasks_by_month,
                   buckets |-> FinishedGoalsByMonth(completed_tasks_by_month)]
    /\ UNCHANGED <<tasks, tlVars, today, ioVars>>

TaskCompletionsByMonthComponent ==
    /\ Idle
    /\ LET task_completions_by_month == get_completed_tasks_by_month(tasks)
       IN  out' = [op |-> "task_completions_by_month_component",
                   buckets |-> task_completions_by_month,
                   items |-> SortedItems(task_completions_by_month),
                   rows |-> MonthRows(task_completions_by_month)]
    /\ UNCHANGED <<tasks, tlVars, today, ioVars>>

NextBuckets ==
    \/ GetCompletedTasksByWeek
    \/ GetFinishedGoalsByWeek
    \/ GetCompletedTasksByMonth
    \/ GetFinishedGoalsByMonth
    \/ TaskCompletionsByMonthComponent

SpecBuckets == InitBuckets /\ [][NextBuckets]_vars

-----------------------------------------------------------------------------
(* Properties of the bucket maps                                           *)

(* the tasks a completed-task aggregator keeps: both dates present *)
Kept(t) == ~t.due_date.none /\ ~t.completion_date.none

(* the position of the task with this id in the task sequence *)
PosOf(id) == CHOOSE i \in 1..Len(tasks) : tasks[i].id = id

(* the places <<bucket, index>> at which task t occurs in a bucket map *)
Places(buckets, t) ==
    {<<k, j>> \in (1..Len(buckets)) \X (1..MaxBucketTasks + 1) :
        j <= Len(buckets[k].tasks) /\ buckets[k].tasks[j] = t}

(* each kept task is in exactly one bucket, each other task in none, no     *)
(* bucket is empty, bucket keys are distinct, and every bucket lists tasks  *)
(* of the sequence in the order of the sequence                             *)
Partitions(buckets) ==
    /\ \A i \in 1..Len(tasks) :
          Cardinality(Places(buckets, tasks[i])) = (IF Kept(tasks[i]) THEN 1 ELSE 0)
    /\ \A k \in 1..Len(buckets) :
          /\ buckets[k].tasks # <<>>
          /\ \A j \in 1..Len(buckets[k].tasks) :
                /\ buckets[k].tasks[j].id \in {tasks[i].id : i \in 1..Len(tasks)}
                /\ buckets[k].tasks[j] = tasks[PosOf(buckets[k].tasks[j].id)]
                /\ \A j2 \in 1..Len(buckets[k].tasks) :
                      j < j2 => PosOf(buckets[k].tasks[j].id)
                                  < PosOf(buckets[k].tasks[j2].id)
          /\ \A k2 \in 1..Len(buckets) : buckets[k2].key = buckets[k].key => k2 = k

(* the Monday-to-Sunday week a day lies in (ordinal 1 is a Monday) *)
MondayWeek(dt) == (dt.ord - 1) \div 7

(* the Sunday-to-Saturday week a day lies in *)
SundayWeek(dt) == dt.ord \div 7

WeekBuckets == out.op = "completed_tasks_by_week"

(* C4 as claimed: every bucket starts on a Sunday and holds the due dates   *)
(* of its tasks within start .. start + 6 days, so tasks share a bucket     *)
(* exactly when their due dates lie in the same Sunday-to-Saturday week.    *)
C4_SundayToSaturday ==
    WeekBuckets =>
      /\ \A k \in 1..Len(out.buckets) : \A j \in 1..Len(out.buckets[k].tasks) :
            LET d == out.buckets[k].tasks[j].due_date
                start == out.buckets[k].start
            IN  /\ Weekday(start) = 6
                /\ start.ord <= d.ord /\ d.ord <= start.ord + 6
      /\ \A i1, i2 \in 1..Len(tasks) :
            (Kept(tasks[i1]) /\ Kept(tasks[i2])) =>
               ((\E p1 \in Places(out.buckets, tasks[i1]) :
                   \E p2 \in Places(out.buckets, tasks[i2]) : p1[1] = p2[1])
                <=> SundayWeek(tasks[i1].due_date) = SundayWeek(tasks[i2].due_date))

(* C4, amended: every bucket starts on a Sunday and holds the due dates of  *)
(* its tasks within start + 1 .. start + 7 days (the Monday after the start *)
(* up to the Sunday that is the bucket end), for due dates of every         *)
(* weekday 0..6; tasks share a bucket exactly when their due dates lie in   *)
(* the same Monday-to-Sunday week.                                          *)
C4_MondayToSunday ==
    WeekBuckets =>
      /\ \A k \in 1..Len(out.buckets) : \A j \in 1..Len(out.buckets[k].tasks) :
            LET d == out.buckets[k].tasks[j].due_date
                start == out.buckets[k].start
            IN  /\ Weekday(start) = 6
                /\ start.sec = 0
                /\ start.ord + 1 <= d.ord /\ d.ord <= start.ord + 7
      /\ \A i1, i2 \in 1..Len(tasks) :
            (Kept(tasks[i1]) /\ Kept(tasks[i2])) =>
               ((\E p1 \in Places(out.buckets, tasks[i1]) :
                   \E p2 \in Places(out.buckets, tasks[i2]) : p1[1] = p2[1])
                <=> MondayWeek(tasks[i1].due_date) = MondayWeek(tasks[i2].due_date))

(* a task due on Sunday 2023-12-31 shares the bucket that starts on Sunday *)
(* 2023-12-24 with a task due on Thursday 2023-12-28                        *)
C4_Witness ==
    /\ WeekBuckets
    /\ Len(tasks) = 2
    /\ Kept(tasks[1]) /\ tasks[1].due_date = Date(2023, 12, 31)
    /\ Kept(tasks[2]) /\ tasks[2].due_date = Date(2023, 12, 28)
    /\ Len(out.buckets) = 1
    /\ out.buckets[1].start = Date(2023, 12, 24)
    /\ out.buckets[1].tasks = <<tasks[1], tasks[2]>>

(* C5: get_completed_tasks_by_week partitions the tasks that have a due      *)
(* date and a completion date: each is in exactly one bucket, whose start is *)
(* its due date minus (weekday + 1) days and whose end is start plus 7 days; *)
(* the other tasks are in no bucket, no bucket is empty, and a bucket keeps  *)
(* the order of the task sequence.                                           *)
C5_WeekPartition ==
    WeekBuckets =>
      /\ Partitions(out.buckets)
      /\ \A k \in 1..Len(out.buckets) : \A j \in 1..Len(out.buckets[k].tasks) :
            LET d == out.buckets[k].tasks[j].due_date
            IN  /\ out.buckets[k].start = DateTime(d.ord - (((d.ord + 6) % 7) + 1), d.sec)
                /\ out.buckets[k].end.ord = out.buckets[k].start.ord + 7
                /\ out.buckets[k].end.sec = out.buckets[k].start.sec

(* a task with a due date and no completion date was left out, and the     *)
(* completed task due on Wednesday 2024-01-03 is alone in the bucket from  *)
(* 2023-12-31 to 2024-01-07                                                 *)
C5_Witness ==
    /\ WeekBuckets
    /\ Len(tasks) = 2
    /\ ~tasks[1].due_date.none /\ tasks[1].completion_date.none
    /\ Kept(tasks[2]) /\ tasks[2].due_date = Date(2024, 1, 3)
    /\ Len(out.buckets) = 1
    /\ out.buckets[1].tasks = <<tasks[2]>>
    /\ out.buckets[1].start = Date(2023, 12, 31)
    /\ out.buckets[1].end = Date(2024, 1, 7)

(* the year and month of a due date, as one number that grows with time *)
MonthIndex(dt) == Ord2Ymd(dt.ord).y * 12 + Ord2Ymd(dt.ord).m

(* C9: get_completed_tasks_by_month partitions the tasks that have a due     *)
(* date and a completion date by the (year, month) of the due date: tasks    *)
(* share a bucket exactly when they share year and month, the other tasks    *)
(* are in no bucket, no bucket is empty, and the buckets sorted by key are   *)
(* visited in ascending chronological order of their month.                  *)
C9_MonthPartition ==
    /\ (out.op = "completed_tasks_by_month") => Partitions(out.buckets)
    /\ (out.op = "task_completions_by_month_component") =>
      /\ Partitions(out.buckets)
      /\ out.buckets = get_completed_tasks_by_month(tasks)
      /\ \A k1, k2 \in 1..Len(out.buckets) :
            \A j1 \in 1..Len(out.buckets[k1].tasks) :
            \A j2 \in 1..Len(out.buckets[k2].tasks) :
               (k1 = k2) <=> (MonthIndex(out.buckets[k1].tasks[j1].due_date)
                               = MonthIndex(out.buckets[k2].tasks[j2].due_date))
      /\ Len(out.items) = Len(out.buckets)
      /\ \A k \in 1..Len(out.buckets) : \E i \in 1..Len(out.items) :
            out.items[i] = out.buckets[k]
      /\ \A i1, i2 \in 1..Len(out.items) :
            i1 < i2 => MonthIndex(out.items[i1].tasks[1].due_date)
                         < MonthIndex(out.items[i2].tasks[1].due_date)
      /\ Len(out.rows) = Len(out.items)

(* the January 2024 bucket was made before the December 2023 bucket, and    *)
(* the sorted iteration visits December 2023 first                          *)
C9_Witness ==
    /\ out.op = "task_completions_by_month_component"
    /\ Len(out.buckets) = 2
    /\ Ord2Ymd(out.buckets[1].tasks[1].due_date.ord).m = 1
    /\ Ord2Ymd(out.buckets[2].tasks[1].due_date.ord).m = 12
    /\ out.items = <<out.buckets[2], out.buckets[1]>>

(* sub lists exactly the entries of full that are goals, in full's order *)
GoalsInOrder(sub, full) ==
    \E f \in [1..Len(sub) -> 1..Len(full)] :
        /\ \A i \in 1..Len(sub) : sub[i] = full[f[i]] /\ full[f[i]].is_goal
        /\ \A i, j \in 1..Len(sub) : i < j => f[i] < f[j]
        /\ \A n \in 1..Len(full) : full[n].is_goal => \E i \in 1..Len(sub) : f[i] = n

(* C10: a goal view has the bucket keys of the map it derives from, each     *)
(* bucket lists exactly the is_goal tasks of the source bucket in the same   *)
(* order, the weekly start and end are carried over, and the source map is   *)
(* the completed-task map of the unchanged task sequence.                    *)
C10_GoalViews ==
    /\ (out.op = "finished_goals_by_week") =>
          /\ out.src = get_completed_tasks_by_week(tasks)
          /\ Partitions(out.src)
          /\ Len(out.buckets) = Len(out.src)
          /\ \A k \in 1..Len(out.src) :
                /\ out.buckets[k].key = out.src[k].key
                /\ out.buckets[k].start = out.src[k].start
                /\ out.buckets[k].end = out.src[k].end
                /\ GoalsInOrder(out.buckets[k].tasks, out.src[k].tasks)
    /\ (out.op = "finished_goals_by_month") =>
          /\ out.src = get_completed_tasks_by_month(tasks)
          /\ Partitions(out.src)
          /\ Len(out.buckets) = Len(out.src)
          /\ \A k \in 1..Len(out.src) :
                /\ out.buckets[k].key = out.src[k].key
                /\ GoalsInOrder(out.buckets[k].tasks, out.src[k].tasks)

(* a weekly source bucket of a goal and a non-goal: the view keeps the goal *)
C10_Witness ==
    /\ out.op = "finished_goals_by_week"
    /\ Len(out.src) = 1
    /\ Len(out.src[1].tasks) = 2
    /\ ~out.src[1].tasks[1].is_goal /\ out.src[1].tasks[2].is_goal
    /\ out.buckets[1].tasks = <<out.src[1].tasks[2]>>

-----------------------------------------------------------------------------
(* The daily aggregators: task_by_date_component and                       *)
(* story_points_by_date_component                                          *)

SeedCount == 31       \* range(31): the days today, today - 1, ..., today - 30
TrailingDays == 30    \* timedelta(days=30)

(* strftime("%a") *)
FmtWeekdayName(dt) ==
    <<"Mon", "Tue", "Wed", "Thu", "Fri", "Sat", "Sun">>[Weekday(dt) + 1]

(* strftime("%Y-%m-%d (%a)") of the day of ordinal o, computed once for    *)
(* every day of the model                                                   *)
FmtDayKeyTable ==
    [o \in ModelDays |->
        FmtYmdOfOrd(o) \o <<" ", "(", FmtWeekdayName(DateTime(o, 0)), ")">>]

(* strftime("%Y-%m-%d (%a)") *)
FmtDayKey(dt) == FmtDayKeyTable[dt.ord]

(* lines 424-428 / 470-474: one bucket of zero counts per seeded day; two   *)
(* days of the same key share one dict entry                                *)
RECURSIVE SeedLoop(_, _, _, _, _)
SeedLoop(now, zero, i, n, acc) ==
    IF i >= n THEN acc
    ELSE LET date_str == FmtDayKey(MinusDays(now, i))
             k == KeyIndex(acc, date_str)
         IN  IF k # 0
               THEN SeedLoop(now, zero, i + 1, n, [acc EXCEPT ![k].counts = zero])
               ELSE SeedLoop(now, zero, i + 1, n,
                        Append(acc, [key |-> date_str, counts |-> zero]))

SeedOneDayLess(now, zero) == SeedLoop(now, zero, 0, SeedCount - 1, <<>>)

Seed(now, zero) == SeedLoop(now, zero, 0, SeedCount, <<>>)

(* lines 431-435 / 477-481: the task is counted *)
InWindow(task, now) ==
    /\ TruthyDate(task.due_date)
    /\ DtLeq(MinusDays(now, TrailingDays), task.due_date)
    /\ DtLeq(task.due_date, now)

(* line 437 *)
TaskIdx(task) ==
    IF task.is_action THEN 1
    ELSE IF TruthyDate(task.completion_date) THEN 2 ELSE 3

(* lines 483-484 *)
StoryPoints(task) ==
    IF ~task.story_points.none /\ task.story_points.val # 0
      THEN task.story_points.val ELSE 0

StoryIdx(task) == IF TruthyDate(task.completion_date) THEN 1 ELSE 2

(* the loop of lines 430-438 from task i on: the buckets, or the KeyError *)
(* of the subscript with a due date that has no bucket                      *)
RECURSIVE TaskCountLoop(_, _, _, _)
TaskCountLoop(ts, now, i, acc) ==
    IF i > Len(ts) THEN [error |-> "none", buckets |-> acc]
    ELSE IF ~InWindow(ts[i], now) THEN TaskCountLoop(ts, now, i + 1, acc)
    ELSE LET k == KeyIndex(acc, FmtDayKey(ts[i].due_date))
         IN  IF k = 0 THEN [error |-> "KeyError", buckets |-> acc]
             ELSE TaskCountLoop(ts, now, i + 1,
                     [acc EXCEPT ![k].counts[TaskIdx(ts[i])] = @ + 1])

(* the loop of lines 476-485 from task i on *)
RECURSIVE StoryCountLoop(_, _, _, _)
StoryCountLoop(ts, now, i, acc) ==
    IF i > Len(ts) THEN [error |-> "none", buckets |-> acc]
    ELSE IF ~InWindow(ts[i], now) THEN StoryCountLoop(ts, now, i + 1, acc)
    ELSE LET k == KeyIndex(acc, FmtDayKey(ts[i].due_date))
         IN  IF k = 0 THEN [error |-> "KeyError", buckets |-> acc]
             ELSE StoryCountLoop(ts, now, i + 1,
                     [acc EXCEPT ![k].counts[StoryIdx(ts[i])] =
                                     @ + StoryPoints(ts[i])])

(* tasks_by_date of task_by_date_component after its loops *)
tasks_by_date(ts, now) == TaskCountLoop(ts, now, 1, Seed(now, <<0, 0, 0>>))

(* story_points_by_date of story_points_by_date_component after its loops *)
story_points_by_date(ts, now) == StoryCountLoop(ts, now, 1, Seed(now, <<0, 0>>))

MaxDailyTasks == 1    \* longest task sequence handed to the daily aggregators

(* the day the dashboard runs, at midnight or later in the day *)
Nows == {DateTime(Ymd2Ord(2024, 3, 15), 0), DateTime(Ymd2Ord(2024, 3, 15), 34200)}

(* due dates inside, at the edges of, and outside the trailing window *)
DailyDueDates == {Date(2024, 2, 13), Date(2024, 2, 14), Date(2024, 2, 15),
                  Date(2024, 3, 15), Date(2024, 3, 16)}

DailyTaskFields ==
    [due_date : DailyDueDates \cup {NoneDate},
     completion_date : {NoneDate, SomeCompletion},
     is_action : BOOLEAN,
     story_points : {NoneInt, Int_(3)}]

InitDaily ==
    /\ \E s \in UNION {[1..k -> DailyTaskFields] : k \in 0..MaxDailyTasks} :
          tasks = [i \in 1..Len(s) |->
                      [MkTask(IdNames[i], None) EXCEPT
                          !.due_date = s[i].due_date,
                          !.completion_date = s[i].completion_date,
                          !.is_action = s[i].is_action,
                          !.story_points = s[i].story_points]]
    /\ task_map = NoneMap
    /\ map_builds = 0
    /\ map_returns = 0
    /\ pc = "idle"
    /\ task_id = None
    /\ ancestor_id = None
    /\ ancestors = <<>>
    /\ ret = [kind |-> "none", value |-> <<>>]
    /\ today = NoneDate
    /\ out = [op |-> "none"]
    /\ InitIO

TaskByDateComponent(now) ==
    /\ Idle
    /\ today' = now
    /\ LET r == tasks_by_date(tasks, now)
       IN  out' = [op |-> "task_by_date_component", error |-> r.error,
                   buckets |-> r.buckets]
    /\ UNCHANGED <<tasks, tlVars, ioVars>>

StoryPointsByDateComponent(now) ==
    /\ Idle
    /\ today' = now
    /\ LET r == story_points_by_date(tasks, now)
       IN  out' = [op |-> "story_points_by_date_component", error |-> r.error,
                   buckets |-> r.buckets]
    /\ UNCHANGED <<tasks, tlVars, ioVars>>

NextDaily ==
    \/ \E now \in Nows : TaskByDateComponent(now)
    \/ \E now \in Nows : StoryPointsByDateComponent(now)

SpecDaily == InitDaily /\ [][NextDaily]_vars

DailyOps == {"task_by_date_component", "story_points_by_date_component"}

(* the sum of a sequence of numbers *)
RECURSIVE Sum(_)
Sum(s) == IF s = <<>> THEN 0 ELSE Head(s) + Sum(Tail(s))

(* C6 as claimed: for a collection with no tasks the daily aggregators       *)
(* produce exactly 30 buckets, every count zero.                             *)
C6_ThirtyZeroBuckets ==
    (out.op \in DailyOps /\ tasks = <<>>) =>
      /\ Len(out.buckets) = 30
      /\ \A k \in 1..Len(out.buckets) : Sum(out.buckets[k].counts) = 0

(* C6, amended: for a collection with no tasks the daily aggregators produce *)
(* exactly 31 buckets, one for each of the days today - 30 .. today, and     *)
(* every count of every bucket is zero.                                      *)
C6_ThirtyOneZeroBuckets ==
    (out.op \in DailyOps /\ tasks = <<>>) =>
      /\ out.error = "none"
      /\ Len(out.buckets) = 31
      /\ \A n \in 0..30 : \E k \in 1..Len(out.buckets) :
            out.buckets[k].key = FmtDayKey(DateTime(today.ord - n, 0))
      /\ \A k \in 1..Len(out.buckets) :
            /\ \A c \in 1..Len(out.buckets[k].counts) : out.buckets[k].counts[c] = 0
            /\ Len(out.buckets[k].counts) =
                  (IF out.op = "task_by_date_component" THEN 3 ELSE 2)

(* the task chart of an empty list, drawn during the day: the oldest of its *)
(* buckets is the one of 2024-02-14, thirty days before 2024-03-15           *)
C6_Witness ==
    /\ out.op = "task_by_date_component" /\ tasks = <<>>
    /\ today.sec > 0
    /\ out.buckets[1].key = FmtDayKey(Date(2024, 3, 15))
    /\ out.buckets[Len(out.buckets)].key = FmtDayKey(Date(2024, 2, 14))
    /\ out.buckets[Len(out.buckets)].counts = <<0, 0, 0>>

(* the counts over all buckets *)
Totals ==
    [c \in 1..3 |-> Sum([k \in 1..Len(out.buckets) |-> out.buckets[k].counts[c]])]

(* C7: in the daily task counts, the completed-action count holds only       *)
(* tasks that are actions and have a completion date, the completed-other    *)
(* count only tasks that are no actions and have a completion date, and a    *)
(* counted task is in the pending count exactly when it has no completion    *)
(* date.                                                                     *)
C7_SplitByActionAndCompletion ==
    (out.op = "task_by_date_component" /\ out.error = "none") =>
      LET counted == {i \in 1..Len(tasks) : InWindow(tasks[i], today)}
      IN  /\ Totals[1] = Cardinality({i \in counted :
                 tasks[i].is_action /\ ~tasks[i].completion_date.none})
          /\ Totals[2] = Cardinality({i \in counted :
                 ~tasks[i].is_action /\ ~tasks[i].completion_date.none})
          /\ Totals[3] = Cardinality({i \in counted :
                 tasks[i].completion_date.none})

(* C8: at any time of day, a task whose due date is a day with a pre-seeded  *)
(* bucket is counted in exactly that bucket, any other task in none, and the *)
(* assignment never fails on a missing key.                                  *)
C8_CountedInItsDay ==
    (out.op \in DailyOps) =>
      /\ out.error = "none"
      /\ \A k \in 1..Len(out.buckets) :
            Sum(out.buckets[k].counts) =
               Sum([i \in 1..Len(tasks) |->
                      IF /\ ~tasks[i].due_date.none
                         /\ FmtDayKey(tasks[i].due_date) = out.buckets[k].key
                        THEN (IF out.op = "task_by_date_component"
                                THEN 1 ELSE StoryPoints(tasks[i]))
                        ELSE 0])


-----------------------------------------------------------------------------
(* Parsing of Workflowy nodes (TaskStore._parse_tasks and its extractors).   *)
(* A str is the sequence of its characters.                                  *)

(* \d and \w of the re module, on ASCII text *)
IsDigit(c) == \E i \in 1..10 : DigitChars[i] = c
IsWord(c) ==
    \/ IsDigit(c)
    \/ c \in {"a", "b", "c", "d", "e", "f", "g", "h", "i", "j", "k", "l", "m",
              "n", "o", "p", "q", "r", "s", "t", "u", "v", "w", "x", "y", "z",
              "A", "B", "C", "D", "E", "F", "G", "H", "I", "J", "K", "L", "M",
              "N", "O", "P", "Q", "R", "S", "T", "U", "V", "W", "X", "Y", "Z",
              "_"}

(* s[i-1:].startswith(lit) *)
StartsWithAt(s, i, lit) ==
    /\ i + Len(lit) - 1 <= Len(s)
    /\ SubSeq(s, i, i + Len(lit) - 1) = lit

(* the last position of the longest run of \w (of \d) that starts at i; *)
(* i - 1 when there is none                                             *)
RECURSIVE WordEnd(_, _)
WordEnd(s, i) ==
    IF i <= Len(s) /\ IsWord(s[i]) THEN WordEnd(s, i + 1) ELSE i - 1

RECURSIVE DigitEnd(_, _)
DigitEnd(s, i) ==
    IF i <= Len(s) /\ IsDigit(s[i]) THEN DigitEnd(s, i + 1) ELSE i - 1

(* re.findall(r"(#\w+)", nm), scanning from position i *)
RECURSIVE FindAllTags(_, _)
FindAllTags(s, i) ==
    IF i > Len(s) THEN <<>>
    ELSE IF s[i] = "#"
           THEN LET e == WordEnd(s, i + 1)
                IN  IF e > i THEN <<SubSeq(s, i, e)>> \o FindAllTags(s, e + 1)
                    ELSE FindAllTags(s, i + 1)
    ELSE FindAllTags(s, i + 1)

extract_tags(nm) == FindAllTags(nm, 1)

(* re.sub(r"#(\w+)", "", nm), scanning from position i *)
RECURSIVE SubHashtags(_, _)
SubHashtags(s, i) ==
    IF i > Len(s) THEN <<>>
    ELSE IF s[i] = "#"
           THEN LET e == WordEnd(s, i + 1)
                IN  IF e > i THEN SubHashtags(s, e + 1)
                    ELSE <<s[i]>> \o SubHashtags(s, i + 1)
    ELSE <<s[i]>> \o SubHashtags(s, i + 1)

(* a mutation: only the "#" of a hashtag is removed *)
RECURSIVE SubHashSigns(_, _)
SubHashSigns(s, i) ==
    IF i > Len(s) THEN <<>>
    ELSE IF s[i] = "#" /\ WordEnd(s, i + 1) > i THEN SubHashSigns(s, i + 1)
    ELSE <<s[i]>> \o SubHashSigns(s, i + 1)

strip_hash_signs(nm) == SubHashSigns(nm, 1)

strip_hashtags(nm) == SubHashtags(nm, 1)

(* where ".*?" followed by lit first matches from position i: the least   *)
(* j >= i with lit at j and no newline in between; 0 when there is none   *)
RECURSIVE LazyFind(_, _, _)
LazyFind(s, i, lit) ==
    IF i > Len(s) THEN 0
    ELSE IF StartsWithAt(s, i, lit) THEN i
    ELSE IF s[i] = "\n" THEN 0
    ELSE LazyFind(s, i + 1, lit)

(* re.sub(open + ".*?" + close, "", s), scanning from position i *)
RECURSIVE SubLazy(_, _, _, _)
SubLazy(s, i, open, close) ==
    IF i > Len(s) THEN <<>>
    ELSE IF StartsWithAt(s, i, open)
           THEN LET j == LazyFind(s, i + Len(open), close)
                IN  IF j # 0 THEN SubLazy(s, j + Len(close), open, close)
                    ELSE <<s[i]>> \o SubLazy(s, i + 1, open, close)
    ELSE <<s[i]>> \o SubLazy(s, i + 1, open, close)

(* a mutation: re.sub(..., count=1), only the first match is removed *)
RECURSIVE SubLazyOnce(_, _, _, _)
SubLazyOnce(s, i, open, close) ==
    IF i > Len(s) THEN <<>>
    ELSE IF StartsWithAt(s, i, open)
           THEN LET j == LazyFind(s, i + Len(open), close)
                IN  IF j # 0 THEN SubSeq(s, j + Len(close), Len(s))
                    ELSE <<s[i]>> \o SubLazyOnce(s, i + 1, open, close)
    ELSE <<s[i]>> \o SubLazyOnce(s, i + 1, open, close)

DueOpen == <<",", " ", "D", "u", "e", " ", "<", "t", "i", "m", "e", " ">>
TimeClose == <<"<", "/", "t", "i", "m", "e", ">">>

strip_due_date(nm) == SubLazy(nm, 1, DueOpen, TimeClose)

strip_first_html_tag(nm) == SubLazyOnce(nm, 1, <<"<">>, <<">">>)

strip_html_tags(nm) == SubLazy(nm, 1, <<"<">>, <<">">>)

extract_task_name(nm) == strip_html_tags(strip_hashtags(strip_due_date(nm)))

(* int() of a run of \d *)
RECURSIVE IntOfDigits(_)
IntOfDigits(s) ==
    IF s = <<>> THEN 0
    ELSE 10 * IntOfDigits(SubSeq(s, 1, Len(s) - 1))
         + ((CHOOSE i \in 1..10 : DigitChars[i] = s[Len(s)]) - 1)

(* int() of a run of \w: decimal digits, single underscores allowed between *)
(* digits; anything else is a ValueError                                    *)
PyInt(s) ==
    IF /\ s # <<>>
       /\ \A i \in 1..Len(s) : IsDigit(s[i]) \/ s[i] = "_"
       /\ IsDigit(s[1]) /\ IsDigit(s[Len(s)])
       /\ \A i \in 1..(Len(s) - 1) : ~(s[i] = "_" /\ s[i + 1] = "_")
      THEN [ok |-> TRUE,
            val |-> IntOfDigits(SelectSeq(s, LAMBDA c : c # "_"))]
      ELSE [ok |-> FALSE, val |-> 0]

(* datetime(year, month, day) raises ValueError outside the calendar *)
ValidDate(y, m, d) ==
    /\ y \in 1..9999
    /\ m \in 1..12
    /\ d >= 1 /\ d <= DaysInMonth(y, m)

TimeYear == <<"<", "t", "i", "m", "e", " ", "s", "t", "a", "r", "t", "Y", "e", "a",
      "r", "=", "\"">>
TimeMonth == <<"\"", " ", "s", "t", "a", "r", "t", "M", "o", "n", "t", "h", "=",
      "\"">>
TimeDay == <<"\"", " ", "s", "t", "a", "r", "t", "D", "a", "y", "=", "\"">>
TimeEnd == <<"\"", ">">>

(* the time regex matched at position i: its three groups *)
TimeMatchAt(s, i) ==
    LET y1 == i + Len(TimeYear)
        y2 == DigitEnd(s, y1)
        m1 == y2 + 1 + Len(TimeMonth)
        m2 == DigitEnd(s, m1)
        d1 == m2 + 1 + Len(TimeDay)
        d2 == DigitEnd(s, d1)
    IN  IF /\ StartsWithAt(s, i, TimeYear) /\ y2 >= y1
           /\ StartsWithAt(s, y2 + 1, TimeMonth) /\ m2 >= m1
           /\ StartsWithAt(s, m2 + 1, TimeDay) /\ d2 >= d1
           /\ StartsWithAt(s, d2 + 1, TimeEnd)
          THEN [ok |-> TRUE, year |-> SubSeq(s, y1, y2),
                month |-> SubSeq(s, m1, m2), day |-> SubSeq(s, d1, d2)]
          ELSE [ok |-> FALSE, year |-> <<>>, month |-> <<>>, day |-> <<>>]

(* re.search: the leftmost match from position i on *)
RECURSIVE TimeSearch(_, _)
TimeSearch(s, i) ==
    IF i > Len(s) \/ s[i] = "<"
      THEN LET match == TimeMatchAt(s, i)
           IN  IF match.ok \/ i > Len(s) THEN match ELSE TimeSearch(s, i + 1)
      ELSE TimeSearch(s, i + 1)

(* what a call leaves: a returned value, or the exception it raised *)
Returned(v) == [raised |-> "", value |-> v]
Raised(e) == [raised |-> e, value |-> NoneInt]

extract_due_date(nm) ==
    LET match == TimeSearch(nm, 1)
        year == IntOfDigits(match.year)
        month == IntOfDigits(match.month)
        day == IntOfDigits(match.day)
    IN  IF match.ok
          THEN IF ValidDate(year, month, day)
                 THEN Returned(Date(year, month, day))
                 ELSE Raised("ValueError")
          ELSE Returned(NoneDate)

(* tag.endswith("STP") and tag[1:-3] *)
EndsWithSTP(tag) ==
    Len(tag) >= 3 /\ StartsWithAt(tag, Len(tag) - 2, <<"S", "T", "P">>)
TagNumber(tag) == SubSeq(tag, 2, Len(tag) - 3)

(* lines 211-214: the loop over the tags from tag i on, story_points = sp *)
RECURSIVE StoryPointsLoop(_, _, _)
StoryPointsLoop(tags, i, sp) ==
    IF i > Len(tags) THEN Returned(sp)
    ELSE IF EndsWithSTP(tags[i])
           THEN LET n == PyInt(TagNumber(tags[i]))
                IN  IF n.ok THEN StoryPointsLoop(tags, i + 1, Int_(n.val))
                    ELSE Raised("ValueError")
    ELSE StoryPointsLoop(tags, i + 1, sp)

(* datetime.fromtimestamp, in a process whose local time is UTC *)
FromTimestamp(ts) == DateTime(Ymd2Ord(1970, 1, 1) + (ts \div 86400), ts % 86400)

ActionTag == <<"#", "A", "c", "t", "i", "o", "n">>
GoalTag == <<"#", "G", "o", "a", "l">>
InTags(tag, tags) == \E i \in 1..Len(tags) : tags[i] = tag

(* A node of tree_data["items"]; cp is NoneInt when the key is missing *)
Node(id, prnt, nm, cp) == [id |-> id, prnt |-> prnt, nm |-> nm, cp |-> cp]

(* the body of the loop of _parse_tasks for one item (lines 196-226) *)
ParseItem(date_joined, item) ==
    LET parent_id == IF item.prnt = "None" THEN None ELSE item.prnt
        due_date == extract_due_date(item.nm)
        tags == extract_tags(item.nm)
        name == extract_task_name(item.nm)
        completion_date ==
            IF ~item.cp.none THEN FromTimestamp(date_joined + item.cp.val)
            ELSE NoneDate
        story_points == StoryPointsLoop(tags, 1, NoneInt)
    IN  IF due_date.raised # "" THEN [raised |-> "ValueError", in |-> "datetime"]
        ELSE IF story_points.raised # ""
               THEN [raised |-> "ValueError", in |-> "int"]
        ELSE [raised |-> "",
              task |-> [id |-> item.id, parent_id |-> parent_id, name |-> name,
                        due_date |-> due_date.value, tags |-> tags,
                        completion_date |-> completion_date,
                        is_action |-> InTags(ActionTag, tags),
                        is_goal |-> InTags(GoalTag, tags),
                        story_points |-> story_points.value]]

(* JSON documents: the initialization data, the tree data, an object with   *)
(* neither shape, and the empty object                                      *)
InitData(date_joined) == [json |-> "init", date_joined |-> date_joined]
TreeData(items) == [json |-> "tree", items |-> items]
OtherJson == [json |-> "other"]
EmptyJson == [json |-> "{}"]

(* the loop of _parse_tasks from item i on, tasks collected so far in acc *)
RECURSIVE ParseLoop(_, _, _, _)
ParseLoop(date_joined, items, i, acc) ==
    IF i > Len(items) THEN [raised |-> "", in |-> "", tasks |-> acc]
    ELSE LET parsed == ParseItem(date_joined, items[i])
         IN  IF parsed.raised # ""
               THEN [raised |-> parsed.raised, in |-> parsed.in, tasks |-> <<>>]
               ELSE ParseLoop(date_joined, items, i + 1,
                              Append(acc, parsed.task))

(* TaskStore._parse_tasks: the TaskList, or the exception that ends it *)
parse_tasks(init, tree) ==
    IF init.json # "init" THEN [raised |-> "KeyError", in |-> "initialization_data",
                                tasks |-> <<>>]
    ELSE IF tree.json # "tree"
           THEN [raised |-> "KeyError", in |-> "tree_data", tasks |-> <<>>]
    ELSE ParseLoop(init.date_joined, tree.items, 1, <<>>)


-----------------------------------------------------------------------------
(* The parser on bounded inputs *)

MaxTags == 2      \* most hashtags in a generated node name
MaxPieces == 4    \* most pieces in a generated raw name

(* every concatenation of at most n sequences of ps, each after sep *)
RECURSIVE Concats(_, _, _)
Concats(ps, sep, n) ==
    IF n = 0 THEN {<<>>}
    ELSE Concats(ps, sep, n - 1)
         \cup {c \o sep \o q : c \in Concats(ps, sep, n - 1), q \in ps}

(* names with hashtags: story-point tags, well and ill formed, and others *)
TagWords ==
    {<<"#", "5", "S", "T", "P">>, <<"#", "1", "2", "S", "T", "P">>,
     <<"#", "S", "T", "P">>, <<"#", "B", "i", "g", "S", "T", "P">>,
     <<"#", "1", "_", "0", "S", "T", "P">>, GoalTag,
     ActionTag}
TagNames == {<<"x">> \o c : c \in Concats(TagWords, <<" ">>, MaxTags)}

(* names with a time marker, of real and of impossible dates, and with a *)
(* marker the regex does not match                                       *)
TimeMarker(y, m, d) == TimeYear \o y \o TimeMonth \o m \o TimeDay \o d \o TimeEnd
DueNames ==
    {<<"x">> \o DueOpen \o TimeMarker(y, m, d) \o <<"t">> \o TimeClose :
        y \in {<<"2", "0", "2", "4">>, <<"2", "0", "2", "3">>, <<"0">>},
        m \in {<<"2">>, <<"0", "3">>, <<"1", "3">>},
        d \in {<<>>, <<"0">>, <<"1", "0">>, <<"2", "9">>, <<"3", "1">>}}

(* raw names over "#", a word character, "<", ">", another character and *)
(* the two ends of a due-date block                                      *)
NamePieces == {<<"#">>, <<"a">>, <<"<">>, <<">">>, <<" ">>, DueOpen, TimeClose}
RawNames == Concats(NamePieces, <<>>, MaxPieces)

(* the node of the worked example *)
ExampleName ==
    <<"S", "h", "i", "p", " ", "v", "1", " ", "#", "G", "o", "a", "l", " ",
      "#", "A", "c", "t", "i", "o", "n", ",", " ", "D", "u", "e", " ", "<",
      "t", "i", "m", "e", " ", "s", "t", "a", "r", "t", "Y", "e", "a", "r",
      "=", "\"", "2", "0", "2", "4", "\"", " ", "s", "t", "a", "r", "t",
      "M", "o", "n", "t", "h", "=", "\"", "3", "\"", " ", "s", "t", "a",
      "r", "t", "D", "a", "y", "=", "\"", "1", "0", "\"", ">", "t", "o",
      "d", "a", "y", "<", "/", "t", "i", "m", "e", ">", " ", "#", "5", "S",
      "T", "P">>
ExampleNode == Node("1", "None", ExampleName, NoneInt)

(* the name of the example as the parser leaves it, and as it would be if *)
(* the text inside the time element were kept                             *)
ExampleStripped == <<"S", "h", "i", "p", " ", "v", "1", " ", " ", " ">>
ExampleWithText ==
    <<"S", "h", "i", "p", " ", "v", "1", " ", " ", "t", "o", "d", "a", "y">>

(* nodes whose hashtags and markers vary, and nodes whose other keys vary *)
TaggedNodes ==
    {Node("2", "None", nm, NoneInt) : nm \in TagNames \cup DueNames}
    \cup {Node("2", prnt, <<"x">>, cp) :
            prnt \in {"None", "1"}, cp \in {NoneInt, Int_(0), Int_(86399)}}

(* a node that parses, to stand before or after another *)
PlainNode == Node("1", "None", <<"y", " ", "#", "3", "S", "T", "P">>, NoneInt)

Trees ==
    {TreeData(<<>>), TreeData(<<ExampleNode>>)}
    \cup {TreeData(<<n>>) : n \in TaggedNodes}
    \cup {TreeData(<<Node("2", "None", nm, NoneInt)>>) : nm \in RawNames}
    \cup {TreeData(<<PlainNode, n>>) : n \in TaggedNodes}
    \cup {TreeData(<<n, PlainNode>>) : n \in TaggedNodes}

InitParse ==
    /\ tasks = <<>>
    /\ task_map = NoneMap
    /\ map_builds = 0
    /\ map_returns = 0
    /\ pc = "idle"
    /\ task_id = None
    /\ ancestor_id = None
    /\ ancestors = <<>>
    /\ ret = [kind |-> "none", value |-> <<>>]
    /\ today = NoneDate
    /\ out = [op |-> "none"]
    /\ initialization_data = InitData(1700000000)
    /\ tree_data \in Trees
    /\ read_cache = FALSE
    /\ cache = [fetch_initialization_data |-> NoneJson,
                fetch_tree_data |-> NoneJson]
    /\ history = [exists |-> FALSE, files |-> <<>>]
    /\ clock = 1
    /\ saves = <<>>

parseFrame == <<tasks, tlVars, today, initialization_data, tree_data,
                read_cache, cache, history, clock, saves>>

(* self._parse_tasks(initialization_data, tree_data) *)
ParseTasks ==
    /\ Idle
    /\ out' = [op |-> "_parse_tasks",
               result |-> parse_tasks(initialization_data, tree_data)]
    /\ UNCHANGED parseFrame

(* extract_due_date on the name of a node *)
ExtractDueDate(i) ==
    /\ Idle
    /\ out' = [op |-> "extract_due_date", nm |-> tree_data.items[i].nm,
               result |-> extract_due_date(tree_data.items[i].nm)]
    /\ UNCHANGED parseFrame

(* _extract_task_name on the name of a node *)
ExtractTaskName(i) ==
    /\ Idle
    /\ out' = [op |-> "_extract_task_name", nm |-> tree_data.items[i].nm,
               name |-> extract_task_name(tree_data.items[i].nm),
               again |-> FALSE]
    /\ UNCHANGED parseFrame

(* _extract_task_name on the name it returned before *)
ExtractTaskNameAgain ==
    /\ out.op = "_extract_task_name" /\ ~out.again
    /\ out' = [op |-> "_extract_task_name", nm |-> out.name,
               name |-> extract_task_name(out.name), again |-> TRUE]
    /\ UNCHANGED parseFrame

NextParse ==
    \/ ParseTasks
    \/ \E i \in 1..Len(tree_data.items) : ExtractDueDate(i)
    \/ \E i \in 1..Len(tree_data.items) : ExtractTaskName(i)
    \/ ExtractTaskNameAgain

SpecParse == InitParse /\ [][NextParse]_vars


-----------------------------------------------------------------------------
(* Properties of the parser *)

Parsed == out.op = "_parse_tasks"

(* a tag of the form #<digits>STP *)
IsStoryPointsTag(tag) ==
    /\ Len(tag) >= 5
    /\ tag[1] = "#"
    /\ EndsWithSTP(tag)
    /\ \A i \in 2..(Len(tag) - 3) : IsDigit(tag[i])

(* the story points the tags of a name stand for: the number of the last *)
(* tag of the form #<digits>STP, None when there is none                 *)
StoryPointsOf(nm) ==
    LET tags == extract_tags(nm)
        at == {i \in 1..Len(tags) : IsStoryPointsTag(tags[i])}
    IN  IF at = {} THEN NoneInt
        ELSE Int_(IntOfDigits(TagNumber(
                 tags[CHOOSE i \in at : \A j \in at : j <= i])))

SomeStoryPointsTag(nm) == StoryPointsOf(nm) # NoneInt
NoTagEndsWithSTP(nm) ==
    \A i \in 1..Len(extract_tags(nm)) : ~EndsWithSTP(extract_tags(nm)[i])

(* C14: a node with one or more #<digits>STP tags gets the number of the   *)
(* last of them as story_points; a node none of whose tags ends in STP     *)
(* gets no story_points.                                                   *)
C14_LastStoryPointsTagWins ==
    Parsed =>
      \A i \in 1..Len(tree_data.items) :
        LET nm == tree_data.items[i].nm
        IN  SomeStoryPointsTag(nm) \/ NoTagEndsWithSTP(nm) =>
              /\ out.result.raised = ""
              /\ out.result.tasks[i].story_points = StoryPointsOf(nm)

(* C15: story-point extraction never fails: a tag that is not of the form  *)
(* #<digits>STP is ignored, story_points is absent or the last matching    *)
(* value, and the fetch is parsed.                                         *)
C15_StoryPointsNeverFail ==
    Parsed =>
      /\ out.result.in # "int"
      /\ out.result.raised = "" =>
           \A i \in 1..Len(tree_data.items) :
             out.result.tasks[i].story_points
               = StoryPointsOf(tree_data.items[i].nm)

(* C16: extract_due_date returns None or a calendar date for every raw    *)
(* name, and never fails.                                                  *)
C16_DueDateNeverFails ==
    out.op = "extract_due_date" =>
      /\ out.result.raised = ""
      /\ out.result.value.none \/ out.result.value.ord >= 1

SecondPass == out.op = "_extract_task_name" /\ out.again

(* some "#" of s is followed by a word character *)
HasHashtag(s) == extract_tags(s) # <<>>

(* C17 as claimed: _extract_task_name is idempotent: applied to its own   *)
(* output it returns that output.                                          *)
C17_Idempotent == SecondPass => out.name = out.nm

(* C17, amended: the output of _extract_task_name holds no due-date block *)
(* and no markup, and _extract_task_name applied to it only strips the    *)
(* hashtags that the removal of markup has formed: it returns the output  *)
(* unchanged exactly when no "#" of the output is followed by a word      *)
(* character.                                                              *)
C17_SecondPassStripsHashtags ==
    SecondPass =>
      /\ strip_due_date(out.nm) = out.nm
      /\ strip_html_tags(out.nm) = out.nm
      /\ out.name = strip_hashtags(out.nm)
      /\ out.name = out.nm <=> ~HasHashtag(out.nm)

(* "#<>a" has become "#a", which the second application has emptied *)
C17_Witness ==
    /\ SecondPass
    /\ tree_data.items[1].nm = <<"#", "<", ">", "a">>
    /\ out.nm = <<"#", "a">>
    /\ out.name = <<>>

ExampleParsed ==
    /\ Parsed
    /\ tree_data = TreeData(<<ExampleNode>>)
    /\ initialization_data = InitData(1700000000)

ExampleTask(name) ==
    [id |-> "1", parent_id |-> None, name |-> name,
     due_date |-> Date(2024, 3, 10),
     tags |-> <<GoalTag, ActionTag, <<"#", "5", "S", "T", "P">>>>,
     completion_date |-> NoneDate, is_action |-> TRUE, is_goal |-> TRUE,
     story_points |-> Int_(5)]

(* C18 as claimed: the example node becomes the task named                *)
(* "Ship v1  today", with no parent, tags #Goal, #Action and #5STP, due    *)
(* 2024-03-10, a goal and an action, 5 story points, not completed.        *)
C18_ExampleNamedWithText ==
    ExampleParsed =>
      /\ out.result.raised = ""
      /\ out.result.tasks = <<ExampleTask(ExampleWithText)>>

(* C18, amended: the example node becomes the task named "Ship v1   "     *)
(* (the text inside the time element goes with the due-date block), with   *)
(* no parent, tags #Goal, #Action and #5STP, due 2024-03-10, a goal and an *)
(* action, 5 story points, not completed.                                  *)
C18_ExampleNamedWithoutText ==
    ExampleParsed =>
      /\ out.result.raised = ""
      /\ out.result.tasks = <<ExampleTask(ExampleStripped)>>

C18_Witness == ExampleParsed /\ Len(out.result.tasks) = 1


-----------------------------------------------------------------------------
(* WorkflowyService and TaskStore.fetch_tasks *)

(* a response body that is not JSON *)
NotJson == [json |-> "not JSON"]

(* truthiness of what json.load returns: None and {} are false *)
TruthyJson(data) == data # NoneJson /\ data # EmptyJson

(* load_from_cache: the content of the file, None when there is no file *)
load_from_cache(files, name) == files[name]

(* save_to_cache: the file is written *)
save_to_cache(files, name, data) == [files EXCEPT ![name] = data]

(* r.json(): the parsed body whatever the status, or JSONDecodeError *)
ResponseJson(r) ==
    IF r.body = NotJson
      THEN [raised |-> "JSONDecodeError", value |-> NoneJson]
      ELSE [raised |-> "", value |-> r.body]

(* the wrapper of cache_it around the fetch function called name, when the *)
(* server answers r: what it returns or raises, the cache files it leaves  *)
(* and the responses it got                                                *)
cache_it(name, r, files) ==
    IF read_cache /\ TruthyJson(load_from_cache(files, name))
      THEN [raised |-> "", value |-> load_from_cache(files, name),
            files |-> files, got |-> <<>>]
    ELSE IF ResponseJson(r).raised # ""
      THEN [raised |-> ResponseJson(r).raised, value |-> NoneJson,
            files |-> files, got |-> <<r>>]
    ELSE [raised |-> "", value |-> ResponseJson(r).value,
          files |-> save_to_cache(files, name, ResponseJson(r).value),
          got |-> <<r>>]

fetch_initialization_data(r, files) ==
    cache_it("fetch_initialization_data", r, files)

fetch_tree_data(r, files) == cache_it("fetch_tree_data", r, files)

(* HTTP statuses and bodies the two endpoints may answer with *)
Statuses == {200, 500}
InitBodies == {NotJson, OtherJson, InitData(1700000000)}
TreeBodies == {NotJson, OtherJson, EmptyJson, TreeData(<<>>),
               TreeData(<<PlainNode>>)}
Response(status, body) == [status |-> status, body |-> body]

(* TaskStore.fetch_tasks, the server answering r1 and r2 *)
FetchTasks(r1, r2) ==
    LET init == fetch_initialization_data(r1, cache)
        tree == fetch_tree_data(r2, init.files)
        parsed == parse_tasks(init.value, tree.value)
    IN  /\ IF init.raised # ""
             THEN /\ out' = [op |-> "fetch_tasks", raised |-> init.raised,
                             tasks |-> <<>>, got |-> init.got]
                  /\ cache' = init.files
           ELSE IF tree.raised # ""
             THEN /\ out' = [op |-> "fetch_tasks", raised |-> tree.raised,
                             tasks |-> <<>>, got |-> init.got \o tree.got]
                  /\ cache' = tree.files
           ELSE /\ out' = [op |-> "fetch_tasks", raised |-> parsed.raised,
                           tasks |-> parsed.tasks, got |-> init.got \o tree.got]
                /\ cache' = tree.files
        /\ UNCHANGED <<tasks, tlVars, today, initialization_data, tree_data,
                       read_cache, history, clock, saves>>

(* WorkflowyService(read_cache=is_debug), over the cache files of earlier *)
(* runs                                                                   *)
InitFetch ==
    /\ tasks = <<>>
    /\ task_map = NoneMap
    /\ map_builds = 0
    /\ map_returns = 0
    /\ pc = "idle"
    /\ task_id = None
    /\ ancestor_id = None
    /\ ancestors = <<>>
    /\ ret = [kind |-> "none", value |-> <<>>]
    /\ today = NoneDate
    /\ out = [op |-> "none"]
    /\ initialization_data = NoneJson
    /\ tree_data = NoneJson
    /\ read_cache \in BOOLEAN
    /\ cache \in [fetch_initialization_data : {NoneJson, InitData(1700000000)},
                  fetch_tree_data : {NoneJson, EmptyJson, TreeData(<<PlainNode>>)}]
    /\ history = [exists |-> FALSE, files |-> <<>>]
    /\ clock = 1
    /\ saves = <<>>

NextFetch ==
    \E s1, s2 \in Statuses, b1 \in InitBodies, b2 \in TreeBodies :
        FetchTasks(Response(s1, b1), Response(s2, b2))

SpecFetch == InitFetch /\ [][NextFetch]_vars

Fetched == out.op = "fetch_tasks"

(* a response that calls for a fatal error: not 2xx, or not JSON *)
BadResponse(r) == r.status \notin 200..299 \/ r.body = NotJson

(* C13: when a response fetch_tasks got has a status that is not 2xx or a  *)
(* body that is not JSON, the refresh ends in an error, no TaskList is     *)
(* returned, and each endpoint was requested once at most.                 *)
C13_BadResponseIsFatal ==
    Fetched /\ (\E i \in 1..Len(out.got) : BadResponse(out.got[i])) =>
      /\ out.raised # ""
      /\ out.tasks = <<>>
      /\ Len(out.got) <= 2


-----------------------------------------------------------------------------
(* WorkflowyHistoryManager: the snapshots of .history/tree_data *)

MaxSaves == 3     \* save_tree_snapshot calls that write a file

(* the instants the wall clock passes through, in order *)
Instants ==
    <<DateTime(Ymd2Ord(2023, 12, 31), 86399), DateTime(Ymd2Ord(2024, 1, 1), 0),
      DateTime(Ymd2Ord(2024, 1, 1), 35999), DateTime(Ymd2Ord(2024, 1, 1), 36000)>>

(* today.strftime("%Y.%m.%d.%H.%M.%S") + ".json" *)
SnapshotName(dt) ==
    LET c == Ord2Ymd(dt.ord)
    IN  FmtYear(c.y) \o <<".">> \o FmtMonth(c.m) \o <<".">> \o FmtDay(c.d)
        \o <<".">> \o Pad(dt.sec \div 3600, 2)
        \o <<".">> \o Pad((dt.sec % 3600) \div 60, 2)
        \o <<".">> \o Pad(dt.sec % 60, 2)
        \o <<".", "j", "s", "o", "n">>

(* the file name a snapshot gets at each of the instants *)
SnapshotNames == [i \in 1..Len(Instants) |-> SnapshotName(Instants[i])]

(* os.listdir then sort(): the names in ascending order *)
(* a < b on the names of snapshots, compared once *)
NameLess ==
    [a \in {SnapshotNames[i] : i \in 1..Len(Instants)} |->
       {b \in {SnapshotNames[i] : i \in 1..Len(Instants)} : StrLess(a, b)}]

SortNames(names) ==
    LET rank(n) == Cardinality({m \in names : n \in NameLess[m]})
    IN  [i \in 1..Cardinality(names) |-> CHOOSE n \in names : rank(n) = i - 1]

(* a mutation: sort() without reverse=True *)
SortNamesAscending(names) == SortNames(names)

(* os.listdir then sort(reverse=True) *)
SortNamesReverse(names) == Reverse(SortNames(names))

(* WorkflowyHistoryManager.load_latest_tree_snapshot on directory h *)
load_latest_tree_snapshot(h) ==
    LET snapshot_filenames == SortNamesReverse(DOMAIN h.files)
    IN  IF ~h.exists THEN [raised |-> "", value |-> NoneJson]
        ELSE IF snapshot_filenames = <<>>
               THEN [raised |-> "IndexError", value |-> NoneJson]
        ELSE [raised |-> "", value |-> h.files[snapshot_filenames[1]]]

(* the file f of directory h written with data *)
WriteFile(h, f, data) ==
    [exists |-> TRUE,
     files |-> [n \in DOMAIN h.files \cup {f} |->
                  IF n = f THEN data ELSE h.files[n]]]

(* the wall clock moves on *)
Tick ==
    /\ clock < Len(Instants)
    /\ clock' = clock + 1
    /\ UNCHANGED <<tasks, tlVars, today, out, initialization_data, tree_data,
                   read_cache, cache, history, saves>>

(* WorkflowyHistoryManager.save_tree_snapshot, the server answering r *)
SaveTreeSnapshot(r) ==
    LET out_path == SnapshotNames[clock]
        fetched == fetch_tree_data(r, cache)
    IN  /\ Len(saves) < MaxSaves
        /\ cache' = fetched.files
        /\ IF fetched.raised # ""
             THEN /\ history' = [history EXCEPT !.exists = TRUE]
                  /\ out' = [op |-> "save_tree_snapshot",
                             raised |-> fetched.raised, value |-> NoneJson]
                  /\ UNCHANGED saves
             ELSE /\ history' = WriteFile(history, out_path, fetched.value)
                  /\ out' = [op |-> "save_tree_snapshot", raised |-> "",
                             value |-> NoneJson]
                  /\ saves' = Append(saves, fetched.value)
        /\ UNCHANGED <<tasks, tlVars, today, initialization_data, tree_data,
                       read_cache, clock>>

(* WorkflowyHistoryManager.load_latest_tree_snapshot *)
LoadLatestTreeSnapshot ==
    /\ LET loaded == load_latest_tree_snapshot(history)
       IN  out' = [op |-> "load_latest_tree_snapshot",
                   raised |-> loaded.raised, value |-> loaded.value]
    /\ UNCHANGED <<tasks, tlVars, today, initialization_data, tree_data,
                   read_cache, cache, history, clock, saves>>

(* TaskStore.load_most_recent_historical_tasks, the server answering r; *)
(* value is None, or the TaskList of the tasks                          *)
LoadMostRecentHistoricalTasks(r) ==
    LET init == fetch_initialization_data(r, cache)
        tree == load_latest_tree_snapshot(history)
        parsed == parse_tasks(init.value, tree.value)
    IN  /\ cache' = init.files
        /\ IF init.raised # ""
             THEN out' = [op |-> "load_most_recent_historical_tasks",
                          raised |-> init.raised, in |-> "fetch",
                          value |-> NoneJson, tasks |-> <<>>]
           ELSE IF tree.raised # ""
             THEN out' = [op |-> "load_most_recent_historical_tasks",
                          raised |-> tree.raised, in |-> "load",
                          value |-> NoneJson, tasks |-> <<>>]
           ELSE IF ~TruthyJson(tree.value)
             THEN out' = [op |-> "load_most_recent_historical_tasks",
                          raised |-> "", in |-> "",
                          value |-> NoneJson, tasks |-> <<>>]
           ELSE out' = [op |-> "load_most_recent_historical_tasks",
                        raised |-> parsed.raised, in |-> "parse",
                        value |-> tree.value, tasks |-> parsed.tasks]
        /\ UNCHANGED <<tasks, tlVars, today, initialization_data, tree_data,
                       read_cache, history, clock, saves>>

(* WorkflowyHistoryManager.__init__ in a working directory without *)
(* .history/tree_data                                               *)
InitHistory ==
    /\ tasks = <<>>
    /\ task_map = NoneMap
    /\ map_builds = 0
    /\ map_returns = 0
    /\ pc = "idle"
    /\ task_id = None
    /\ ancestor_id = None
    /\ ancestors = <<>>
    /\ ret = [kind |-> "none", value |-> <<>>]
    /\ today = NoneDate
    /\ out = [op |-> "none"]
    /\ initialization_data = NoneJson
    /\ tree_data = NoneJson
    /\ read_cache \in BOOLEAN
    /\ cache = [fetch_initialization_data |-> NoneJson,
                fetch_tree_data |-> NoneJson]
    /\ history = [exists |-> FALSE, files |-> <<>>]
    /\ clock = 1
    /\ saves = <<>>

NextHistory ==
    \/ Tick
    \/ \E b \in {NotJson, EmptyJson, TreeData(<<>>), TreeData(<<PlainNode>>)} :
          SaveTreeSnapshot(Response(200, b))
    \/ LoadLatestTreeSnapshot
    \/ \E b \in InitBodies : LoadMostRecentHistoricalTasks(Response(200, b))

SpecHistory == InitHistory /\ [][NextHistory]_vars

NoSnapshotFile == DOMAIN history.files = {}

(* C11: whenever no snapshot file exists, load_latest_tree_snapshot        *)
(* returns None, and so does load_most_recent_historical_tasks once it has *)
(* its initialization data: neither raises.                                *)
C11_NoSnapshotIsNone ==
    /\ out.op = "load_latest_tree_snapshot" /\ NoSnapshotFile =>
         out.raised = "" /\ out.value = NoneJson
    /\ out.op = "load_most_recent_historical_tasks" /\ NoSnapshotFile =>
         out.in # "load" /\ (out.in # "fetch" => out.raised = "")

(* C12: once a save has written a file, load_latest_tree_snapshot returns *)
(* the tree data of the most recent save that wrote one.                  *)
C12_LatestSaveIsLoaded ==
    out.op = "load_latest_tree_snapshot" /\ saves # <<>> =>
      out.raised = "" /\ out.value = saves[Len(saves)]

(* three saves, two of them within one second, of different tree data, *)
(* and a load after them                                               *)
C12_Witness ==
    /\ out.op = "load_latest_tree_snapshot"
    /\ Len(saves) = 3
    /\ Cardinality(DOMAIN history.files) = 2
    /\ saves[2] # saves[3] /\ saves[1] # saves[3]
    /\ out.value = saves[3]


-----------------------------------------------------------------------------
(* calculate_next_sunday and active_goals_component *)

MaxGoalTasks == 2   \* longest task sequence handed to active_goals_component

(* a mutation: a Sunday is its own next Sunday *)
calculate_this_sunday(day) == PlusDays(day, 6 - Weekday(day))

calculate_next_sunday(day) ==
    IF Weekday(day) = 6 THEN PlusDays(day, 7)
    ELSE LET days_to_sunday == 6 - Weekday(day)
         IN  PlusDays(day, days_to_sunday)

(* a < b on datetimes *)
DtLess(a, b) == DtLeq(a, b) /\ a # b

(* sep.join(strs) *)
RECURSIVE Join(_, _)
Join(sep, strs) ==
    IF strs = <<>> THEN <<>>
    ELSE IF Len(strs) = 1 THEN strs[1]
    ELSE strs[1] \o sep \o Join(sep, Tail(strs))

(* the while loop of getAncestors run to its end from ancestor_id aid *)
RECURSIVE AncestorWalk(_, _, _)
AncestorWalk(m, aid, acc) ==
    IF ~Truthy(aid) THEN [raised |-> "", value |-> Reverse(acc)]
    ELSE IF ~Subscript(m, aid).ok THEN [raised |-> "KeyError", value |-> <<>>]
    ELSE AncestorWalk(m, Subscript(m, aid).parent_id, Append(acc, aid))

(* task_list.getAncestors(tid) as one call, on the built index m *)
getAncestors(m, tid) ==
    IF Subscript(m, tid).ok
      THEN AncestorWalk(m, Subscript(m, tid).parent_id, <<>>)
      ELSE [raised |-> "KeyError", value |-> <<>>]

(* " > ".join([task_map[id].name for id in task_list.getAncestors(task_id)]) *)
get_ancestor_str(m, tid) ==
    LET ids == getAncestors(m, tid)
    IN  IF ids.raised # "" THEN [raised |-> ids.raised, value |-> <<>>]
        ELSE [raised |-> "",
              value |-> Join(<<" ", ">", " ">>,
                             [i \in 1..Len(ids.value) |->
                                m.items[ids.value[i]].name])]

(* the row the component appends for a task *)
Row(m, task) ==
    [name |-> task.name, ancestor_str |-> get_ancestor_str(m, task.id).value,
     due_date |-> task.due_date, tags |-> Join(<<",", " ">>, task.tags)]

(* whether the loop of lines 331-351 appends a row for the task *)
Listed(task, filter_this_week, next_sunday) ==
    /\ task.is_goal /\ ~TruthyDate(task.completion_date)
    /\ filter_this_week =>
         TruthyDate(task.due_date) /\ DtLeq(task.due_date, next_sunday)

(* the loop of lines 331-351 from task i on, rows collected so far in acc *)
RECURSIVE RowsLoop(_, _, _, _, _, _)
RowsLoop(m, ts, filter_this_week, next_sunday, i, acc) ==
    IF i > Len(ts) THEN [raised |-> "", rows |-> acc]
    ELSE IF Listed(ts[i], filter_this_week, next_sunday)
           THEN IF get_ancestor_str(m, ts[i].id).raised # ""
                  THEN [raised |-> "KeyError", rows |-> <<>>]
                  ELSE RowsLoop(m, ts, filter_this_week, next_sunday, i + 1,
                                Append(acc, Row(m, ts[i])))
    ELSE RowsLoop(m, ts, filter_this_week, next_sunday, i + 1, acc)

(* r[2] or datetime(9999, 12, 31) *)
SortKey(row) ==
    IF TruthyDate(row.due_date) THEN row.due_date ELSE Date(9999, 12, 31)

(* rows.sort(key=...): a stable sort, ascending *)
RECURSIVE SortRows(_)
SortRows(rows) ==
    IF rows = <<>> THEN <<>>
    ELSE LET first == CHOOSE i \in 1..Len(rows) :
                        /\ \A j \in 1..Len(rows) :
                             ~DtLess(SortKey(rows[j]), SortKey(rows[i]))
                        /\ \A j \in 1..(i - 1) :
                             DtLess(SortKey(rows[i]), SortKey(rows[j]))
             rest == [k \in 1..(Len(rows) - 1) |->
                        IF k < first THEN rows[k] ELSE rows[k + 1]]
         IN  <<rows[first]>> \o SortRows(rest)

(* the week of 2024-01-08 (a Monday): each of its days in the morning, and *)
(* its Sunday at midnight                                                  *)
GoalNows ==
    {DateTime(Ymd2Ord(2024, 1, 8) + d, 34200) : d \in 0..6}
    \cup {DateTime(Ymd2Ord(2024, 1, 14), 0)}

(* due dates before, on and after the two Sundays that follow *)
GoalDueDates == {Date(2024, 1, 7), Date(2024, 1, 14), Date(2024, 1, 15),
                 Date(2024, 1, 21), Date(2024, 1, 22)}

GoalTaskFields ==
    [due_date : GoalDueDates \cup {NoneDate},
     kind : {"goal", "completed goal", "action"}]

(* a root task and children of it, as the parser makes them *)
GoalTask(i, f) ==
    [id |-> IdNames[i],
     parent_id |-> IF i = 1 THEN None ELSE IdNames[1],
     name |-> <<"t", DigitChars[i + 1]>>,
     due_date |-> f.due_date,
     tags |-> IF f.kind = "action" THEN <<ActionTag>> ELSE <<GoalTag>>,
     completion_date |-> IF f.kind = "completed goal" THEN SomeCompletion
                         ELSE NoneDate,
     is_action |-> f.kind = "action",
     is_goal |-> f.kind # "action",
     story_points |-> NoneInt]

InitGoals ==
    /\ \E s \in UNION {[1..k -> GoalTaskFields] : k \in 0..MaxGoalTasks} :
          tasks = [i \in 1..Len(s) |-> GoalTask(i, s[i])]
    /\ task_map = NoneMap
    /\ map_builds = 0
    /\ map_returns = 0
    /\ pc = "idle"
    /\ task_id = None
    /\ ancestor_id = None
    /\ ancestors = <<>>
    /\ ret = [kind |-> "none", value |-> <<>>]
    /\ today = NoneDate
    /\ out = [op |-> "none"]
    /\ InitIO

(* active_goals_component, the toggle being filter_this_week *)
ActiveGoalsComponent(now, filter_this_week) ==
    LET m == TaskMapAfter(task_map, tasks)
        next_sunday == calculate_next_sunday(now)
        listed == RowsLoop(m, tasks, filter_this_week, next_sunday, 1, <<>>)
    IN  /\ Idle
        /\ today' = now
        /\ task_map' = m
        /\ map_builds' = map_builds + BuildsNow(task_map)
        /\ map_returns' = map_returns + 1 + Len(listed.rows)
        /\ out' = [op |-> "active_goals_component",
                   filter_this_week |-> filter_this_week,
                   next_sunday |-> next_sunday,
                   raised |-> listed.raised,
                   rows |-> SortRows(listed.rows)]
        /\ UNCHANGED <<tasks, pc, task_id, ancestor_id, ancestors, ret, ioVars>>

NextGoals ==
    \E now \in GoalNows, filter_this_week \in BOOLEAN :
        ActiveGoalsComponent(now, filter_this_week)

SpecGoals == InitGoals /\ [][NextGoals]_vars

GoalsListed == out.op = "active_goals_component"

(* C20: calculate_next_sunday(day) is a Sunday, 1 to 7 days after day (7   *)
(* when day is a Sunday, else the first Sunday after day), at the time of  *)
(* day; and with the filter on, active_goals_component lists exactly the   *)
(* uncompleted goals due on or before that Sunday, by due date ascending.  *)
C20_DueByNextSunday ==
    GoalsListed =>
      /\ Weekday(out.next_sunday) = 6
      /\ out.next_sunday.sec = today.sec
      /\ out.next_sunday.ord - today.ord \in 1..7
      /\ out.next_sunday.ord - today.ord = 7 <=> Weekday(today) = 6
      /\ out.filter_this_week =>
           /\ out.raised = ""
           /\ \A i \in 1..Len(tasks) :
                (\E k \in 1..Len(out.rows) : out.rows[k].name = tasks[i].name)
                <=> /\ tasks[i].is_goal /\ tasks[i].completion_date = NoneDate
                    /\ tasks[i].due_date # NoneDate
                    /\ tasks[i].due_date.ord <= out.next_sunday.ord
           /\ \A k \in 1..Len(out.rows) :
                \E i \in 1..Len(tasks) :
                  /\ out.rows[k].name = tasks[i].name
                  /\ out.rows[k].due_date = tasks[i].due_date
           /\ \A k, l \in 1..Len(out.rows) :
                /\ k # l => out.rows[k].name # out.rows[l].name
                /\ k < l => DtLeq(out.rows[k].due_date, out.rows[l].due_date)

(* on a Sunday at midnight with the filter on, the goal due the following *)
(* Sunday is listed after the goal due the same day                       *)
C20_Witness ==
    /\ GoalsListed /\ out.filter_this_week
    /\ today = DateTime(Ymd2Ord(2024, 1, 14), 0)
    /\ Len(tasks) = 2
    /\ tasks[1].due_date = Date(2024, 1, 21)
    /\ Len(out.rows) = 2
    /\ out.rows[1].name = tasks[2].name
    /\ out.rows[2].ancestor_str = <<>>

====
